---- MODULE Spec2Model ----
(***************************************************************************)
(* Risk scoring of masavasc/risk-predictor-app.                            *)
(*                                                                         *)
(*   Variant B  src/risk-predictor-app/src/RiskCalculator.js               *)
(*              calculateRealEstateRisk, runWorstCaseSimulation            *)
(*              src/risk-predictor-app/src/App.jsx                         *)
(*              handleChange, handleSubmit, onBack                         *)
(*   Variant A  src/unnamed/part_000                                       *)
(*              estimateIncreasedRepayment, calculateRiskScore,            *)
(*              handleChange, handleCalculate                              *)
(*                                                                         *)
(* Spec runs the calculations on bounded inputs; SpecApp runs the two      *)
(* user interfaces from their mounted state, under change events that      *)
(* carry text.                                                             *)
(*                                                                         *)
(* A JavaScript Number is modelled as an exact rational [num, den] in      *)
(* lowest terms with den > 0; den = 0 encodes the IEEE values the code     *)
(* can produce by dividing by zero (1/0 = Infinity, -1/0 = -Infinity,      *)
(* 0/0 = NaN).  The arithmetic is exact: the rounding error of binary      *)
(* doubles is not modelled.  On the inputs drawn below with MaxAmount = 2  *)
(* and RateSteps = 2, and on the example inputs, doubles give the same     *)
(* scores and levels as the exact values; in general a Math.floor can      *)
(* differ by one where the exact product is an integer (repayment 1.2,     *)
(* income 3: 1.2 / 3 * 150 is 59.99... in doubles, 60 exactly).            *)
(* User-visible Japanese strings are replaced by ASCII tags, the original  *)
(* text is quoted beside each tag.                                         *)
(***************************************************************************)
EXTENDS Integers, Sequences, FiniteSets, TLC

----------------------------------------------------------------------------
(* JavaScript numbers *)

Abs(n) == IF n < 0 THEN -n ELSE n

Sign(n) == IF n < 0 THEN -1 ELSE IF n > 0 THEN 1 ELSE 0

RECURSIVE GCD(_, _)
GCD(a, b) == IF b = 0 THEN a ELSE GCD(b, a % b)

\* the Number n/d: lowest terms, positive denominator; d = 0 gives
\* Infinity, -Infinity or NaN by the sign of n
Num(n, d) ==
    IF d = 0 THEN [num |-> Sign(n), den |-> 0]
    ELSE LET g == GCD(Abs(n), Abs(d))
         IN  [num |-> Sign(d) * (n \div g), den |-> Abs(d) \div g]

Nr(n) == [num |-> n, den |-> 1]

NaN == [num |-> 0, den |-> 0]

\* the value of a parameter that was not passed
undefined == [num |-> 0, den |-> -1]

IsNaN(a) == a.den = 0 /\ a.num = 0

IsInteger(a) == a.den = 1

\* a + b
Plus(a, b) ==
    IF a.den = 0 /\ b.den = 0
    THEN (IF a.num = b.num THEN a ELSE NaN)
    ELSE LET g == IF a.den = 0 \/ b.den = 0 THEN 1 ELSE GCD(a.den, b.den)
         IN  Num(a.num * (b.den \div g) + b.num * (a.den \div g),
                 (a.den \div g) * b.den)

\* a - b
Minus(a, b) == Plus(a, [num |-> -b.num, den |-> b.den])

\* a * b
Times(a, b) ==
    LET g1 == IF a.num = 0 \/ b.den = 0 THEN 1 ELSE GCD(Abs(a.num), b.den)
        g2 == IF b.num = 0 \/ a.den = 0 THEN 1 ELSE GCD(Abs(b.num), a.den)
    IN  Num((a.num \div g1) * (b.num \div g2), (a.den \div g2) * (b.den \div g1))

\* a / b  (x / 0 is Infinity, -Infinity or NaN: JavaScript raises no fault)
Over(a, b) == Times(a, [num |-> Sign(b.num) * b.den, den |-> Abs(b.num)])

\* the order of an/ad and bn/bd, ad > 0 and bd > 0: -1, 0 or 1.  The integer
\* parts are compared, then the reciprocals of the fractional parts, so that
\* no product is formed
RECURSIVE Compare(_, _, _, _)
Compare(an, ad, bn, bd) ==
    LET qa == an \div ad
        qb == bn \div bd
        ra == an % ad
        rb == bn % bd
    IN  IF qa # qb THEN (IF qa < qb THEN -1 ELSE 1)
        ELSE IF ra = 0 \/ rb = 0
             THEN (IF ra = rb THEN 0 ELSE IF ra = 0 THEN -1 ELSE 1)
        ELSE Compare(bd, rb, ad, ra)

\* a < b  (false whenever an operand is NaN)
Lt(a, b) ==
    /\ ~IsNaN(a)
    /\ ~IsNaN(b)
    /\ IF a.den = 0 \/ b.den = 0 THEN a.num * b.den < b.num * a.den
       ELSE Compare(a.num, a.den, b.num, b.den) < 0

\* a > b
Gt(a, b) == Lt(b, a)

\* a >= b
Ge(a, b) ==
    /\ ~IsNaN(a)
    /\ ~IsNaN(b)
    /\ IF a.den = 0 \/ b.den = 0 THEN a.num * b.den >= b.num * a.den
       ELSE Compare(a.num, a.den, b.num, b.den) >= 0

\* a === 0
IsZero(a) == a.num = 0 /\ a.den > 0

\* Math.floor(a)
MathFloor(a) == IF a.den = 0 THEN a ELSE Nr(a.num \div a.den)

\* Math.min(a, b)
MathMin(a, b) == IF IsNaN(a) \/ IsNaN(b) THEN NaN ELSE IF Lt(b, a) THEN b ELSE a

\* Math.max(a, b)
MathMax(a, b) == IF IsNaN(a) \/ IsNaN(b) THEN NaN ELSE IF Lt(a, b) THEN b ELSE a

\* a || 1 : a Number is falsy when it is 0 or NaN
OrOne(a) == IF IsZero(a) \/ IsNaN(a) THEN Nr(1) ELSE a

\* a.toFixed(2), as the Number its digits denote: the nearest multiple of
\* 0.01, a tie going to the larger magnitude; "Infinity" and "NaN" stay
toFixed2(a) ==
    IF a.den = 0 THEN a
    ELSE LET whole == Abs(a.num) \div a.den
             rest == Abs(a.num) % a.den
             tenth == (rest * 10) \div a.den
             rest1 == (rest * 10) % a.den
             hundredth == (rest1 * 10) \div a.den
             rest2 == (rest1 * 10) % a.den
             hundredths == tenth * 10 + hundredth
                           + (IF 2 * rest2 >= a.den THEN 1 ELSE 0)
         IN  Times(Nr(Sign(a.num)), Plus(Nr(whole), Num(hundredths, 100)))

----------------------------------------------------------------------------
(* Variant B: RiskCalculator.js *)

\* "致命的リスク: 主債務者の年収がゼロです。"
LEVEL_FATAL == "FATAL_RISK_DEBTOR_INCOME_IS_ZERO"
\* "非常に高いリスク (⚠️ 専門家への相談を強く推奨)"
LEVEL_VERY_HIGH == "VERY_HIGH_RISK"
\* "高いリスク (注意深く検討が必要)"
LEVEL_HIGH == "HIGH_RISK"
\* "中程度のリスク (詳細な情報確認を)"
LEVEL_MEDIUM == "MEDIUM_RISK"
\* "比較的低いリスク"
LEVEL_LOW == "RELATIVELY_LOW_RISK"

\* "【🚨極めて高いリスク】収益で返済を賄えません。持ち出し必須。"
DETAIL_DCR_BELOW_1 == "DCR_EXTREMELY_HIGH_RISK"
\* "【⚠️高いリスク】DCRがタイトです。キャッシュフローに余裕がありません。"
DETAIL_DCR_TIGHT == "DCR_HIGH_RISK_TIGHT"
\* "【✅低いリスク】収益に一定の余裕があります。"
DETAIL_DCR_OK == "DCR_LOW_RISK"

\* `【収益性指標】借入償還カバー率(DCR): ${dcr.toFixed(2)} (目標: 1.20以上)`
\* a template string is a tuple: its tag, then the values of its ${...} holes
DcrCommentText(dcr) == <<"DCR_COMMENT", toFixed2(dcr)>>

\* the empty string the fatal result carries as dcrComment
EmptyComment == <<"">>

\* const annualRepayment = repaymentOverride !== undefined ? ... : ...
EffectiveRepayment(data, repaymentOverride) ==
    IF repaymentOverride # undefined THEN repaymentOverride
    ELSE data.annualRepayment

\* mutant: the base score not capped at 100 where it is computed
BaseScoreUncapped(dsr) == MathFloor(Times(dsr, Nr(150)))

\* let baseScore = Math.min(100, Math.floor(dsr * 150))
BaseScore(dsr) == MathMin(Nr(100), MathFloor(Times(dsr, Nr(150))))

\* annualNetIncome: vacancy and expenses are both taken from the gross rent
AnnualNetIncome(data) ==
    LET grossIncomeAfterVacancy ==
            Times(data.annualRentalIncomeGross,
                  Minus(Nr(1), data.vacancyRateAssumption))
    IN  Minus(grossIncomeAfterVacancy,
              Times(data.annualRentalIncomeGross, data.annualExpensesRatio))

\* mutant: the guard written >= 0, so a zero repayment is divided by
DcrGuardGe(annualNetIncome, annualRepayment) ==
    IF Ge(annualRepayment, Nr(0)) THEN Over(annualNetIncome, annualRepayment)
    ELSE Nr(999)

\* if (annualRepayment > 0) dcr = annualNetIncome / annualRepayment; else dcr = 999.0
Dcr(annualNetIncome, annualRepayment) ==
    IF Gt(annualRepayment, Nr(0)) THEN Over(annualNetIncome, annualRepayment)
    ELSE Nr(999)

\* mutant: the second threshold written <= 1.2
DcrAdjustmentLe(dcr) ==
    IF Lt(dcr, Nr(1)) THEN Nr(40)
    ELSE IF Ge(Num(12, 10), dcr) THEN Nr(15)
    ELSE Nr(-10)

\* mutant: two ifs instead of if / else-if, so a DCR below 1.0 gets both
\* additions, the way Variant A subtracts its two DCSR penalties
DcrAdjustmentCumulative(dcr) ==
    IF Lt(dcr, Nr(1)) THEN Nr(55)
    ELSE IF Lt(dcr, Num(12, 10)) THEN Nr(15)
    ELSE Nr(-10)

\* the if / else-if / else on dcr: what is added to baseScore
DcrAdjustment(dcr) ==
    IF Lt(dcr, Nr(1)) THEN Nr(40)
    ELSE IF Lt(dcr, Num(12, 10)) THEN Nr(15)
    ELSE Nr(-10)

\* the dcrDetail set in the same branch
DcrDetail(dcr) ==
    IF Lt(dcr, Nr(1)) THEN DETAIL_DCR_BELOW_1
    ELSE IF Lt(dcr, Num(12, 10)) THEN DETAIL_DCR_TIGHT
    ELSE DETAIL_DCR_OK

\* baseScore += Math.floor(data.otherDebtsRatio * 30)
OtherDebtsTerm(data) == MathFloor(Times(data.otherDebtsRatio, Nr(30)))

\* mutant: the upper clamp forgotten
ClampScoreNoCap(baseScore) == MathMax(Nr(0), baseScore)

\* const finalScore = Math.max(0, Math.min(100, baseScore))
ClampScore(baseScore) == MathMax(Nr(0), MathMin(Nr(100), baseScore))

\* the four-tier level of a final score
LevelOf(finalScore) ==
    IF Ge(finalScore, Nr(70)) THEN LEVEL_VERY_HIGH
    ELSE IF Ge(finalScore, Nr(50)) THEN LEVEL_HIGH
    ELSE IF Ge(finalScore, Nr(30)) THEN LEVEL_MEDIUM
    ELSE LEVEL_LOW

\* mutant: the fatal result carries the DCR sentinel instead of 0
FatalResultSentinelDcr ==
    [score |-> Nr(100), level |-> LEVEL_FATAL, dcrComment |-> EmptyComment,
     dcrDetail |-> "", dcrValue |-> Nr(999), annualNetIncome |-> undefined]

\* the object returned when data.annualIncomeDebtor === 0.0; it has no
\* annualNetIncome property
FatalResult ==
    [score |-> Nr(100), level |-> LEVEL_FATAL, dcrComment |-> EmptyComment,
     dcrDetail |-> "", dcrValue |-> Nr(0), annualNetIncome |-> undefined]

calculateRealEstateRisk(data, repaymentOverride) ==
    LET annualRepayment == EffectiveRepayment(data, repaymentOverride)
    IN  IF IsZero(data.annualIncomeDebtor) THEN FatalResult
        ELSE
          LET dsr == Over(annualRepayment, data.annualIncomeDebtor)
              annualNetIncome == AnnualNetIncome(data)
              dcr == Dcr(annualNetIncome, annualRepayment)
              baseScore == Plus(Plus(BaseScore(dsr), DcrAdjustment(dcr)),
                                OtherDebtsTerm(data))
              finalScore == ClampScore(baseScore)
          IN  [score |-> finalScore, level |-> LevelOf(finalScore),
               dcrComment |-> DcrCommentText(dcr), dcrDetail |-> DcrDetail(dcr),
               dcrValue |-> dcr, annualNetIncome |-> annualNetIncome]

----------------------------------------------------------------------------
(* Variant A: part_000 *)

\* const WORST_CASE_VACANCY_RATE = 0.20
WORST_CASE_VACANCY_RATE == Num(20, 100)

\* '低', '中', '高'
RISK_LOW == "LOW"
RISK_MEDIUM == "MEDIUM"
RISK_HIGH == "HIGH"

\* mutant: the estimate held at 0 when the new rate is the lower one
estimateIncreasedRepaymentNonNegative(totalDebt, currentRate, newRate) ==
    MathMax(Nr(0), Times(Times(totalDebt, Minus(newRate, currentRate)), Num(7, 10)))

estimateIncreasedRepayment(totalDebt, currentRate, newRate) ==
    Times(Times(totalDebt, Minus(newRate, currentRate)), Num(7, 10))

\* mutant: the total-debt penalty tested against 8, the threshold of the
\* interest-risk score
CreditScoreDebtOver8(input) ==
    LET debtToIncomeRatio == Over(input.annualRepayment, OrOne(input.annualIncome))
        totalDebtToIncomeRatio == Over(input.totalDebt, OrOne(input.annualIncome))
        c0 == Nr(30)
        c1 == IF Gt(debtToIncomeRatio, Num(3, 10)) THEN Minus(c0, Nr(5)) ELSE c0
        c2 == IF Gt(totalDebtToIncomeRatio, Nr(8)) THEN Minus(c1, Nr(10)) ELSE c1
        c3 == IF Gt(input.otherDebtRatio, Num(2, 10)) THEN Minus(c2, Nr(5)) ELSE c2
    IN  IF Lt(c3, Nr(0)) THEN Nr(0) ELSE c3

\* 1. creditScore: 30, less the penalties, not below 0
CreditScore(input) ==
    LET debtToIncomeRatio == Over(input.annualRepayment, OrOne(input.annualIncome))
        totalDebtToIncomeRatio == Over(input.totalDebt, OrOne(input.annualIncome))
        c0 == Nr(30)
        c1 == IF Gt(debtToIncomeRatio, Num(3, 10)) THEN Minus(c0, Nr(5)) ELSE c0
        c2 == IF Gt(totalDebtToIncomeRatio, Nr(5)) THEN Minus(c1, Nr(10)) ELSE c1
        c3 == IF Gt(input.otherDebtRatio, Num(2, 10)) THEN Minus(c2, Nr(5)) ELSE c2
    IN  IF Lt(c3, Nr(0)) THEN Nr(0) ELSE c3

\* mutant: the NOI of Variant B, expenses taken from the gross rent
NoiExpensesOnGross(annualRentIncome, vacancyRate, expenseRate) ==
    Minus(Times(annualRentIncome, Minus(Nr(1), vacancyRate)),
          Times(annualRentIncome, expenseRate))

\* const noi = annualRentIncome * (1 - vacancyRate) * (1 - expenseRate)
Noi(annualRentIncome, vacancyRate, expenseRate) ==
    Times(Times(annualRentIncome, Minus(Nr(1), vacancyRate)),
          Minus(Nr(1), expenseRate))

\* noi / (repayment || 1)
Dcsr(noi, repayment) == Over(noi, OrOne(repayment))

\* mutant: the two DCSR tests chained with else, so a DCSR below 1.0 costs
\* 15 and not 25
PropertyScoreElseIf(input) ==
    LET noi == Noi(input.annualRentIncome, input.vacancyRate, input.expenseRate)
        currentDcsr == Dcsr(noi, input.annualRepayment)
        p0 == Nr(40)
        p2 == IF Lt(currentDcsr, Nr(1)) THEN Minus(p0, Nr(15))
              ELSE IF Lt(currentDcsr, Num(12, 10)) THEN Minus(p0, Nr(10)) ELSE p0
        p3 == IF Gt(input.expenseRate, Num(4, 10)) THEN Minus(p2, Nr(5)) ELSE p2
        p4 == IF Gt(input.vacancyRate, Num(15, 100)) THEN Minus(p3, Nr(5)) ELSE p3
    IN  IF Lt(p4, Nr(0)) THEN Nr(0) ELSE p4

\* 2. propertyScore: 40, less the penalties, not below 0
PropertyScore(input) ==
    LET noi == Noi(input.annualRentIncome, input.vacancyRate, input.expenseRate)
        currentDcsr == Dcsr(noi, input.annualRepayment)
        p0 == Nr(40)
        p1 == IF Lt(currentDcsr, Num(12, 10)) THEN Minus(p0, Nr(10)) ELSE p0
        p2 == IF Lt(currentDcsr, Nr(1)) THEN Minus(p1, Nr(15)) ELSE p1
        p3 == IF Gt(input.expenseRate, Num(4, 10)) THEN Minus(p2, Nr(5)) ELSE p2
        p4 == IF Gt(input.vacancyRate, Num(15, 100)) THEN Minus(p3, Nr(5)) ELSE p3
    IN  IF Lt(p4, Nr(0)) THEN Nr(0) ELSE p4

\* mutant: the penalties added (+=) instead of subtracted
InterestRiskScoreAdded(input) ==
    LET totalDebtToIncomeRatio == Over(input.totalDebt, OrOne(input.annualIncome))
        i0 == Nr(30)
        i1 == IF Gt(input.interestRate, Num(4, 100)) THEN Plus(i0, Nr(10)) ELSE i0
        i2 == IF Gt(input.interestRate, Num(5, 100)) THEN Plus(i1, Nr(10)) ELSE i1
        i3 == IF Gt(totalDebtToIncomeRatio, Nr(8)) THEN Plus(i2, Nr(5)) ELSE i2
    IN  IF Lt(i3, Nr(0)) THEN Nr(0) ELSE i3

\* 3. interestRiskScore: 30, less the penalties, not below 0
InterestRiskScore(input) ==
    LET totalDebtToIncomeRatio == Over(input.totalDebt, OrOne(input.annualIncome))
        i0 == Nr(30)
        i1 == IF Gt(input.interestRate, Num(4, 100)) THEN Minus(i0, Nr(10)) ELSE i0
        i2 == IF Gt(input.interestRate, Num(5, 100)) THEN Minus(i1, Nr(10)) ELSE i1
        i3 == IF Gt(totalDebtToIncomeRatio, Nr(8)) THEN Minus(i2, Nr(5)) ELSE i2
    IN  IF Lt(i3, Nr(0)) THEN Nr(0) ELSE i3

\* the level of a DCSR in the two simulations: '低', then '中' below 1.2,
\* then '高' below 1.0
DcsrRiskLevel(dcsr) ==
    LET l1 == IF Lt(dcsr, Num(12, 10)) THEN RISK_MEDIUM ELSE RISK_LOW
    IN  IF Lt(dcsr, Nr(1)) THEN RISK_HIGH ELSE l1

\* simulatedRiskDetail
SimulatedRiskDetail(simulatedInterestRate, simulatedDcsr) ==
    LET pct == toFixed2(Times(simulatedInterestRate, Nr(100)))
        d1 == IF Lt(simulatedDcsr, Num(12, 10))
              THEN <<"SIM_RATE_DCSR_FALLS_TO_MEDIUM", pct, toFixed2(simulatedDcsr)>>
              ELSE <<"SIM_RATE_RISK_STAYS_LOW">>
    IN  IF Lt(simulatedDcsr, Nr(1)) THEN <<"SIM_RATE_DCSR_BELOW_1_HIGH", pct>>
        ELSE d1

\* vacancyRiskDetail
VacancyRiskDetail(worstCaseVacancyDcsr) ==
    LET pct == Times(WORST_CASE_VACANCY_RATE, Nr(100))
        d1 == IF Lt(worstCaseVacancyDcsr, Num(12, 10))
              THEN <<"VACANCY_DCSR_FALLS_TO_MEDIUM", pct, toFixed2(worstCaseVacancyDcsr)>>
              ELSE <<"VACANCY_DCSR_STABLE", pct, toFixed2(worstCaseVacancyDcsr)>>
    IN  IF Lt(worstCaseVacancyDcsr, Nr(1)) THEN <<"VACANCY_DCSR_BELOW_1_HIGH", pct>>
        ELSE d1

\* riskLevel: '低', then '中' below 80, then '高' below 50
RiskLevel(finalScore) ==
    LET l1 == IF Lt(finalScore, Nr(80)) THEN RISK_MEDIUM ELSE RISK_LOW
    IN  IF Lt(finalScore, Nr(50)) THEN RISK_HIGH ELSE l1

\* riskDetail: the fixed text set beside riskLevel
RiskDetail(finalScore) ==
    LET d1 == IF Lt(finalScore, Nr(80)) THEN "DETAIL_ROOM_FOR_IMPROVEMENT"
              ELSE "DETAIL_VERY_LOW_GUARANTEE_RISK"
    IN  IF Lt(finalScore, Nr(50)) THEN "DETAIL_MAJOR_CONCERN" ELSE d1

calculateRiskScore(input) ==
    LET creditScore == CreditScore(input)
        noi == Noi(input.annualRentIncome, input.vacancyRate, input.expenseRate)
        currentDcsr == Dcsr(noi, input.annualRepayment)
        propertyScore == PropertyScore(input)
        interestRiskScore == InterestRiskScore(input)
        increasedRepayment ==
            estimateIncreasedRepayment(input.totalDebt, input.interestRate,
                                       input.simulatedInterestRate)
        simulatedRepayment == Plus(input.annualRepayment, increasedRepayment)
        simulatedDcsr == Dcsr(noi, simulatedRepayment)
        worstCaseVacancyNoi ==
            Noi(input.annualRentIncome, WORST_CASE_VACANCY_RATE, input.expenseRate)
        worstCaseVacancyDcsr == Dcsr(worstCaseVacancyNoi, input.annualRepayment)
        finalScore == Plus(Plus(creditScore, propertyScore), interestRiskScore)
    IN  [finalScore |-> finalScore,
         riskLevel |-> RiskLevel(finalScore),
         riskDetail |-> RiskDetail(finalScore),
         creditScore |-> creditScore,
         propertyScore |-> propertyScore,
         interestRiskScore |-> interestRiskScore,
         currentDcsr |-> currentDcsr,
         simulatedDcsr |-> simulatedDcsr,
         simulatedRiskLevel |-> DcsrRiskLevel(simulatedDcsr),
         simulatedRiskDetail |->
             SimulatedRiskDetail(input.simulatedInterestRate, simulatedDcsr),
         simulatedRepayment |-> simulatedRepayment,
         worstCaseVacancyDcsr |-> worstCaseVacancyDcsr,
         vacancyRiskLevel |-> DcsrRiskLevel(worstCaseVacancyDcsr),
         vacancyRiskDetail |-> VacancyRiskDetail(worstCaseVacancyDcsr),
         WORST_CASE_VACANCY_RATE |-> WORST_CASE_VACANCY_RATE]

----------------------------------------------------------------------------
(* The inputs *)

\* amounts (income, repayment, rent) range over 0 .. MaxAmount
MaxAmount == 2

\* the expense and vacancy rates range over k / RateSteps, k in 0 .. RateSteps
RateSteps == 2

Amounts == {Nr(k) : k \in 0..MaxAmount}

Rates == {Num(k, RateSteps) : k \in 0..RateSteps}

\* other debts as a fraction of income: below, at and above the 0.2 of
\* Variant A; 1/4 makes otherDebtsRatio * 30 fractional
OtherDebtRatios == {Nr(0), Num(1, 10), Num(1, 4)}

\* the initial form values of Variant B (App.jsx), with the remainingYears
\* handleSubmit adds
initialFormData ==
    [annualIncomeDebtor |-> Nr(5000000),
     annualRepayment |-> Nr(1000000),
     loanAmount |-> Nr(30000000),
     annualRentalIncomeGross |-> Nr(2000000),
     annualExpensesRatio |-> Num(3, 10),
     vacancyRateAssumption |-> Num(1, 10),
     currentAnnualInterestRate |-> Num(3, 100),
     otherDebtsRatio |-> Num(1, 10)]

\* const inputDataForCalculation = { ...formData, remainingYears: 20 }
InputDataForCalculation(formData) ==
    [f \in DOMAIN formData \cup {"remainingYears"} |->
        IF f = "remainingYears" THEN Nr(20) ELSE formData[f]]

\* the bounded inputs of Variant B
InputsB ==
    [annualIncomeDebtor : Amounts,
     annualRepayment : Amounts,
     loanAmount : {Nr(0), Nr(10)},
     annualRentalIncomeGross : Amounts,
     annualExpensesRatio : Rates,
     vacancyRateAssumption : Rates,
     currentAnnualInterestRate : {Num(3, 100)},
     otherDebtsRatio : OtherDebtRatios,
     remainingYears : {Nr(20)}]

\* the overrides a direct call passes: none, zero, and two positive ones
Overrides == {undefined, Nr(0), Nr(1), Num(3, 2)}

\* the arguments runWorstCaseSimulation is called with: left out, or given
RateIncreaseArgs == {undefined, Num(1, 10)}

WorstVacancyArgs == {undefined, Num(1, 2)}

\* the initial input of Variant A (part_000)
initialInput ==
    [annualIncome |-> Nr(5000000),
     annualRepayment |-> Nr(1000000),
     totalDebt |-> Nr(30000000),
     annualRentIncome |-> Nr(2000000),
     expenseRate |-> Num(3, 10),
     vacancyRate |-> Num(1, 10),
     interestRate |-> Num(3, 100),
     simulatedInterestRate |-> Num(4, 100),
     otherDebtRatio |-> Num(1, 10)]

\* the bounded inputs of Variant A
InputsA ==
    [annualIncome : Amounts,
     annualRepayment : Amounts,
     totalDebt : {Nr(0), Nr(6), Nr(9)},
     annualRentIncome : Amounts,
     expenseRate : Rates,
     vacancyRate : Rates,
     interestRate : {Nr(0), Num(45, 1000), Num(6, 100)},
     simulatedInterestRate : {Nr(0), Num(4, 100), Num(1, 10)},
     otherDebtRatio : OtherDebtRatios]

\* the input of Example 2: Example 1 with vacancyRate 0.25
example2Input == [initialInput EXCEPT !.vacancyRate = Num(25, 100)]

----------------------------------------------------------------------------
(* The state *)

\* a state value that is not set (null in the React state, an unassigned local)
null == [null |-> TRUE]

VARIABLES
    variant,                 \* "A" or "B": which of the two programs runs
    input,                   \* A: the FinancialInput
    score,                   \* A: the result of calculateRiskScore, or null
    originalData,            \* B: the record the caller passes
    entryData,               \* B: history, originalData as it was at the call
    pcB,                     \* B: where the call is
    repaymentOverride,       \* B: second argument of a direct call
    directResult,            \* B: what the direct call returned
    simArgs,                 \* B: history, the arguments as the caller gave them
    rateIncreasePercentage,  \* B: parameters of runWorstCaseSimulation
    worstVacancyRate,
    simDataVacancy,          \* B: locals of runWorstCaseSimulation
    resultVacancy,
    newAnnualRepayment,
    resultRate,
    simResult,               \* B: what runWorstCaseSimulation returned
    formData,                \* App.jsx: the form values (React state)
    results,                 \* App.jsx: the simulation shown, or null
    event,                   \* both UIs: the last event a handler served
    edits                    \* both UIs: how many change events were served

varsA == <<input, score>>

varsSim == <<rateIncreasePercentage, worstVacancyRate, simDataVacancy,
             resultVacancy, newAnnualRepayment, resultRate, simResult>>

varsB == <<originalData, entryData, pcB, repaymentOverride, directResult, simArgs,
           varsSim>>

varsApp == <<formData, results, event, edits>>

vars == <<variant, varsA, varsB, varsApp>>

IdleB ==
    /\ entryData = null
    /\ pcB = "idle"
    /\ repaymentOverride = undefined
    /\ directResult = null
    /\ simArgs = null
    /\ rateIncreasePercentage = undefined
    /\ worstVacancyRate = undefined
    /\ simDataVacancy = null
    /\ resultVacancy = null
    /\ newAnnualRepayment = undefined
    /\ resultRate = null
    /\ simResult = null

\* the user interface as it is mounted: useState(initialFormData),
\* useState(null), no event served yet
IdleApp ==
    /\ formData = initialFormData
    /\ results = null
    /\ event = [kind |-> "none"]
    /\ edits = 0

\* Variant A runs, on a bounded input or on the input of Example 1 or 2
InitA ==
    /\ variant = "A"
    /\ input \in InputsA \cup {initialInput, example2Input}
    /\ score = null
    /\ originalData = InputDataForCalculation(initialFormData)
    /\ IdleB
    /\ IdleApp

\* Variant B runs, on a bounded input or on the initial form data
InitB ==
    /\ variant = "B"
    /\ originalData \in InputsB \cup {InputDataForCalculation(initialFormData)}
    /\ IdleB
    /\ input = initialInput
    /\ score = null
    /\ IdleApp

Init == InitA \/ InitB

----------------------------------------------------------------------------
(* Variant A: the call *)

\* handleCalculate: const result = calculateRiskScore(input); setScore(result)
handleCalculate ==
    /\ variant = "A"
    /\ score' = calculateRiskScore(input)
    /\ event' = [kind |-> "calculate"]
    /\ UNCHANGED <<variant, input, varsB, formData, results, edits>>

----------------------------------------------------------------------------
(* Variant B: the calls *)

\* a caller calls calculateRealEstateRisk(originalData, override) itself
CallDirect ==
    /\ variant = "B"
    /\ pcB = "idle"
    /\ \E ov \in Overrides :
         /\ repaymentOverride' = ov
         /\ directResult' = calculateRealEstateRisk(originalData, ov)
    /\ entryData' = originalData
    /\ pcB' = "direct_returned"
    /\ UNCHANGED <<variant, varsA, varsApp, originalData, simArgs, varsSim>>

\* rateIncreasePercentage = 0.02, worstVacancyRate = 0.20 when left out
DefaultArg(arg, default) == IF arg = undefined THEN default ELSE arg

\* runWorstCaseSimulation(originalData, rate, worst) is entered
CallSim ==
    /\ variant = "B"
    /\ pcB = "idle"
    /\ \E rate \in RateIncreaseArgs, worst \in WorstVacancyArgs :
         /\ simArgs' = [rate |-> rate, worst |-> worst]
         /\ rateIncreasePercentage' = DefaultArg(rate, Num(2, 100))
         /\ worstVacancyRate' = DefaultArg(worst, Num(20, 100))
    /\ entryData' = originalData
    /\ pcB' = "sim_vacancy"
    /\ UNCHANGED <<variant, varsA, varsApp, originalData, repaymentOverride, directResult,
                   simDataVacancy, resultVacancy, newAnnualRepayment, resultRate,
                   simResult>>

\* mutant: the spread written last, so the original vacancy rate wins
SpreadVacancyReversed(data, worst) == data

\* const simDataVacancy = { ...originalData, vacancyRateAssumption: worstVacancyRate }
SpreadVacancy(data, worst) == [data EXCEPT !.vacancyRateAssumption = worst]

\* mutant: no copy is made, the worst-case vacancy is written into the
\* caller's record (simDataVacancy = originalData; its field assigned)
SimVacancyInPlace ==
    /\ pcB = "sim_vacancy"
    /\ originalData' = SpreadVacancy(originalData, worstVacancyRate)
    /\ simDataVacancy' = originalData'
    /\ resultVacancy' = calculateRealEstateRisk(simDataVacancy', undefined)
    /\ pcB' = "sim_rate"
    /\ UNCHANGED <<variant, varsA, varsApp, entryData, repaymentOverride,
                   directResult, simArgs, rateIncreasePercentage, worstVacancyRate,
                   newAnnualRepayment, resultRate, simResult>>

\* 1. the vacancy scenario: a copy of the record with the worst-case vacancy
SimVacancy ==
    /\ pcB = "sim_vacancy"
    /\ simDataVacancy' = SpreadVacancy(originalData, worstVacancyRate)
    /\ resultVacancy' = calculateRealEstateRisk(simDataVacancy', undefined)
    /\ pcB' = "sim_rate"
    /\ UNCHANGED <<variant, varsA, varsApp, originalData, entryData, repaymentOverride,
                   directResult, simArgs, rateIncreasePercentage, worstVacancyRate,
                   newAnnualRepayment, resultRate, simResult>>

\* mutant: the increase subtracted from the repayment
NewAnnualRepaymentSubtracted(data, rate) ==
    Minus(data.annualRepayment, Times(data.loanAmount, rate))

\* newAnnualRepayment = originalData.annualRepayment + originalData.loanAmount * rate
NewAnnualRepayment(data, rate) ==
    LET annualRepaymentIncrease == Times(data.loanAmount, rate)
    IN  Plus(data.annualRepayment, annualRepaymentIncrease)

\* 2. the rate-hike scenario: the same record, the raised repayment as override
SimRateHike ==
    /\ pcB = "sim_rate"
    /\ newAnnualRepayment' = NewAnnualRepayment(originalData, rateIncreasePercentage)
    /\ resultRate' = calculateRealEstateRisk(originalData, newAnnualRepayment')
    /\ pcB' = "sim_return"
    /\ UNCHANGED <<variant, varsA, varsApp, originalData, entryData, repaymentOverride,
                   directResult, simArgs, rateIncreasePercentage, worstVacancyRate,
                   simDataVacancy, resultVacancy, simResult>>

\* return { original: calculateRealEstateRisk(originalData), vacancy, rateHike,
\*          newRepaymentAmount }
SimReturn ==
    /\ pcB = "sim_return"
    /\ simResult' = [original |-> calculateRealEstateRisk(originalData, undefined),
                     vacancy |-> resultVacancy,
                     rateHike |-> resultRate,
                     newRepaymentAmount |-> newAnnualRepayment]
    /\ pcB' = "sim_returned"
    /\ UNCHANGED <<variant, varsA, varsApp, originalData, entryData, repaymentOverride,
                   directResult, simArgs, rateIncreasePercentage, worstVacancyRate,
                   simDataVacancy, resultVacancy, newAnnualRepayment, resultRate>>

Next ==
    \/ handleCalculate
    \/ CallDirect
    \/ CallSim
    \/ SimVacancy
    \/ SimRateHike
    \/ SimReturn

Spec == Init /\ [][Next]_vars

----------------------------------------------------------------------------
(* The two user interfaces: what a change event carries *)

\* the text an <input> hands to its change handler, one character per entry
InfinityText == <<"I", "n", "f", "i", "n", "i", "t", "y">>

IsDigit(c) == c \in {"0", "1", "2", "3", "4", "5", "6", "7", "8", "9"}

DigitValue(c) ==
    CASE c = "0" -> 0 [] c = "1" -> 1 [] c = "2" -> 2 [] c = "3" -> 3
      [] c = "4" -> 4 [] c = "5" -> 5 [] c = "6" -> 6 [] c = "7" -> 7
      [] c = "8" -> 8 [] c = "9" -> 9

IsWhiteSpace(c) == c \in {" ", "\t", "\n", "\r"}

\* text without its leading white space
RECURSIVE TrimStart(_)
TrimStart(text) ==
    IF text # <<>> /\ IsWhiteSpace(Head(text)) THEN TrimStart(Tail(text)) ELSE text

\* the length of the longest prefix of text made of digits
RECURSIVE DigitsPrefixLen(_)
DigitsPrefixLen(text) ==
    IF text # <<>> /\ IsDigit(Head(text)) THEN 1 + DigitsPrefixLen(Tail(text)) ELSE 0

\* the integer a sequence of digits denotes (0 for none)
RECURSIVE DigitsValue(_)
DigitsValue(digits) ==
    IF digits = <<>> THEN 0
    ELSE 10 * DigitsValue(SubSeq(digits, 1, Len(digits) - 1))
         + DigitValue(digits[Len(digits)])

RECURSIVE Pow10(_)
Pow10(n) == IF n = 0 THEN 1 ELSE 10 * Pow10(n - 1)

StartsWith(text, prefix) ==
    Len(text) >= Len(prefix) /\ SubSeq(text, 1, Len(prefix)) = prefix

\* parseFloat(text): leading white space is skipped, then the longest prefix
\* that is a decimal literal (sign, digits, '.', digits, exponent) or a signed
\* "Infinity" is converted and the rest ignored; NaN when there is no such
\* prefix.  parseFloat("-0") is -0 in JavaScript and 0 here: the rationals
\* have one zero.
parseFloat(text) ==
    LET s == TrimStart(text)
        signed == s # <<>> /\ Head(s) \in {"+", "-"}
        sign == IF s # <<>> /\ Head(s) = "-" THEN -1 ELSE 1
        body == IF signed THEN Tail(s) ELSE s
        i == DigitsPrefixLen(body)
        afterInt == SubSeq(body, i + 1, Len(body))
        hasDot == afterInt # <<>> /\ Head(afterInt) = "."
        afterDot == IF hasDot THEN Tail(afterInt) ELSE afterInt
        f == IF hasDot THEN DigitsPrefixLen(afterDot) ELSE 0
        mantissaDigits == SubSeq(body, 1, i) \o SubSeq(afterDot, 1, f)
        afterMantissa == SubSeq(afterDot, f + 1, Len(afterDot))
        hasE == afterMantissa # <<>> /\ Head(afterMantissa) \in {"e", "E"}
        afterE == IF hasE THEN Tail(afterMantissa) ELSE <<>>
        expSigned == afterE # <<>> /\ Head(afterE) \in {"+", "-"}
        expSign == IF afterE # <<>> /\ Head(afterE) = "-" THEN -1 ELSE 1
        expBody == IF expSigned THEN Tail(afterE) ELSE afterE
        x == DigitsPrefixLen(expBody)
        exponent == expSign * DigitsValue(SubSeq(expBody, 1, x))
        mantissa == sign * DigitsValue(mantissaDigits)
    IN  IF StartsWith(body, InfinityText) THEN Num(sign, 0)
        ELSE IF i = 0 /\ f = 0 THEN NaN
        ELSE IF exponent >= f THEN Nr(mantissa * Pow10(exponent - f))
        ELSE Num(mantissa, Pow10(f - exponent))

\* e.target.value.replace(/,/g, ''): the text without its commas
RECURSIVE StripCommas(_)
StripCommas(text) ==
    IF text = <<>> THEN <<>>
    ELSE IF Head(text) = "," THEN StripCommas(Tail(text))
    ELSE <<Head(text)>> \o StripCommas(Tail(text))

\* the number of change events a run serves
MaxEdits == 2

\* the texts a change event can carry into any field: empty, no number at
\* all, a signed zero, and Infinity
CommonTexts ==
    {<<>>,
     <<"a", "b", "c">>,
     <<"-", "0">>,
     InfinityText}

\* a text for the fields that hold an amount of yen: 1,500,000 with its
\* thousands separators
AmountTexts ==
    {<<"1", ",", "5", "0", "0", ",", "0", "0", "0">>}

\* a text for the fields that hold a rate: 0.5 written with a leading space
\* and an exponent, followed by another character
RateTexts ==
    {<<" ", "5", "e", "-", "1", "x">>}

\* the fields whose input has a step below 1 hold a rate, the others an amount
RateFields ==
    {"annualExpensesRatio", "vacancyRateAssumption", "currentAnnualInterestRate",
     "otherDebtsRatio",
     "expenseRate", "vacancyRate", "interestRate", "simulatedInterestRate",
     "otherDebtRatio"}

\* the texts a change event of the field name carries.  Amounts and rates
\* get texts of their own magnitude: the exact arithmetic of a later
\* calculation has to stay within the integers of the model checker.
Texts(name) ==
    CommonTexts \cup (IF name \in RateFields THEN RateTexts ELSE AmountTexts)

----------------------------------------------------------------------------
(* Variant B: the user interface of App.jsx *)

\* the name attributes of the inputs rendered from inputFields
inputFields == DOMAIN initialFormData

\* mutant: the parsed value stored as it is
OrZeroKeepsNaN(a) == a

\* a || 0 : 0 replaces the falsy Numbers, 0 and NaN
OrZero(a) == IF IsZero(a) \/ IsNaN(a) THEN Nr(0) ELSE a

\* setFormData(prevData => ({ ...prevData, [name]: parseFloat(value) || 0 }))
setFormData(prevData, name, value) ==
    [prevData EXCEPT ![name] = OrZero(parseFloat(value))]

\* handleChange of App.jsx; the form is rendered only while results is null
handleChangeB ==
    /\ variant = "B"
    /\ results = null
    /\ edits < MaxEdits
    /\ \E name \in inputFields : \E value \in Texts(name) :
         /\ formData' = setFormData(formData, name, value)
         /\ event' = [kind |-> "change", name |-> name, value |-> value]
    /\ edits' = edits + 1
    /\ UNCHANGED <<variant, varsA, varsB, results>>

\* runWorstCaseSimulation(originalData, rate, worst) as one call: the steps
\* SimVacancy, SimRateHike and SimReturn in sequence
runWorstCaseSimulation(data, rateArg, worstArg) ==
    LET rate == DefaultArg(rateArg, Num(2, 100))
        worst == DefaultArg(worstArg, Num(20, 100))
        vacancyData == SpreadVacancy(data, worst)
        vacancyResult == calculateRealEstateRisk(vacancyData, undefined)
        newRepayment == NewAnnualRepayment(data, rate)
        rateResult == calculateRealEstateRisk(data, newRepayment)
    IN  [original |-> calculateRealEstateRisk(data, undefined),
         vacancy |-> vacancyResult,
         rateHike |-> rateResult,
         newRepaymentAmount |-> newRepayment]

\* handleSubmit: the form's submit event.  The browser's own validation of
\* the inputs (required, min, step) can only withhold the event; it is not
\* modelled, so every form can be submitted.
handleSubmit ==
    /\ variant = "B"
    /\ results = null
    /\ LET inputDataForCalculation == InputDataForCalculation(formData)
           calculationResults ==
               runWorstCaseSimulation(inputDataForCalculation, undefined, undefined)
       IN  results' = calculationResults
    /\ event' = [kind |-> "submit"]
    /\ UNCHANGED <<variant, varsA, varsB, formData, edits>>

\* mutant: going back also clears the form
onBackResetsForm ==
    /\ variant = "B"
    /\ results # null
    /\ results' = null
    /\ formData' = initialFormData
    /\ event' = [kind |-> "back"]
    /\ UNCHANGED <<variant, varsA, varsB, edits>>

\* onBack={() => setResults(null)}: the button of the result screen, which
\* is rendered only while results is set
onBack ==
    /\ variant = "B"
    /\ results # null
    /\ results' = null
    /\ event' = [kind |-> "back"]
    /\ UNCHANGED <<variant, varsA, varsB, formData, edits>>

----------------------------------------------------------------------------
(* Variant A: the user interface of part_000 *)

\* the name attributes of the inputs rendered from fields and simulationField
fields == DOMAIN initialInput

\* setInput(prev => ({ ...prev, [name]: isNaN(newValue) ? 0 : newValue }))
\* with newValue = type === 'number' ? parseFloat(value) : value
setInput(prev, name, value, type) ==
    LET newValue == IF type = "number" THEN parseFloat(value) ELSE value
    IN  [prev EXCEPT ![name] = IF IsNaN(newValue) THEN Nr(0) ELSE newValue]

\* the onChange of an InputField: the commas are removed and handleChange is
\* called with type 'number'; the form is always rendered
handleChangeA ==
    /\ variant = "A"
    /\ edits < MaxEdits
    /\ \E name \in fields : \E value \in Texts(name) :
         LET rawValue == StripCommas(value)
         IN  /\ input' = setInput(input, name, rawValue, "number")
             /\ event' = [kind |-> "change", name |-> name, value |-> value]
    /\ edits' = edits + 1
    /\ UNCHANGED <<variant, score, varsB, formData, results>>

\* both user interfaces as they are mounted
InitApp ==
    /\ variant \in {"A", "B"}
    /\ input = initialInput
    /\ score = null
    /\ originalData = InputDataForCalculation(initialFormData)
    /\ IdleB
    /\ IdleApp

NextApp ==
    \/ handleChangeA
    \/ handleCalculate
    \/ handleChangeB
    \/ handleSubmit
    \/ onBack

SpecApp == InitApp /\ [][NextApp]_vars

----------------------------------------------------------------------------
(* The claims *)

\* s is an integer of 0 .. 100
IsScore(s) == IsInteger(s) /\ Ge(s, Nr(0)) /\ Ge(Nr(100), s)

\* the assessments of Variant B the state holds
ResultsB ==
    {r \in {directResult, resultVacancy, resultRate} : r # null}
    \cup (IF simResult = null THEN {}
          ELSE {simResult.original, simResult.vacancy, simResult.rateHike})

\* C1: on every valid input the finalScore calculateRiskScore returns and
\* the score calculateRealEstateRisk returns, with or without a repayment
\* override, is an integer of 0 .. 100.
C1_ScoreIsIntegerIn0To100 ==
    /\ score # null => IsScore(score.finalScore)
    /\ \A r \in ResultsB : IsScore(r.score)

\* C1 witness: a direct call with an override whose score is held down to
\* 100 by the clamp (base 100, +40 for a DCR below 1, other debts on top).
C1_Witness ==
    /\ directResult # null
    /\ repaymentOverride # undefined
    /\ ~IsZero(originalData.annualIncomeDebtor)
    /\ Gt(originalData.otherDebtsRatio, Nr(0))
    /\ Lt(directResult.dcrValue, Nr(1))
    /\ directResult.score = Nr(100)

\* r is the fatal-risk result: score 100, the fatal level, dcrValue 0
IsFatal(r) == r.score = Nr(100) /\ r.level = LEVEL_FATAL /\ r.dcrValue = Nr(0)

\* C2: when annualIncomeDebtor is 0, calculateRealEstateRisk returns score
\* 100, the fatal level and dcrValue 0 whatever the other fields and the
\* override are, so the three assessments of runWorstCaseSimulation score 100.
C2_ZeroIncomeIsFatal ==
    IsZero(originalData.annualIncomeDebtor) =>
        /\ \A r \in ResultsB : IsFatal(r)
        /\ simResult # null =>
              /\ simResult.original.score = Nr(100)
              /\ simResult.vacancy.score = Nr(100)
              /\ simResult.rateHike.score = Nr(100)

\* C2 witness: runWorstCaseSimulation has returned for a record with zero
\* income, a rent and a positive stressed repayment.
C2_Witness ==
    /\ pcB = "sim_returned"
    /\ IsZero(originalData.annualIncomeDebtor)
    /\ Gt(originalData.annualRentalIncomeGross, Nr(0))
    /\ Gt(newAnnualRepayment, originalData.annualRepayment)
    /\ simResult.rateHike.score = Nr(100)

\* r was computed with a zero repayment and a positive NOI
ZeroRepaymentPositiveNoi(r, repayment) ==
    /\ r # null
    /\ ~IsZero(originalData.annualIncomeDebtor)
    /\ IsZero(repayment)
    /\ Gt(r.annualNetIncome, Nr(0))

\* the repayment a direct call works with
DirectRepayment ==
    IF repaymentOverride # undefined THEN repaymentOverride
    ELSE originalData.annualRepayment

\* C3: with a non-zero income, a zero effective repayment (the override when
\* given, else data.annualRepayment) and NOI > 0, dcrValue is the sentinel
\* 999: a finite number, nothing was divided by zero.
C3_ZeroRepaymentGivesSentinel ==
    /\ ZeroRepaymentPositiveNoi(directResult, DirectRepayment)
          => directResult.dcrValue = Nr(999)
    /\ ZeroRepaymentPositiveNoi(resultVacancy, originalData.annualRepayment)
          => resultVacancy.dcrValue = Nr(999)
    /\ ZeroRepaymentPositiveNoi(resultRate, newAnnualRepayment)
          => resultRate.dcrValue = Nr(999)
    /\ simResult # null =>
          (ZeroRepaymentPositiveNoi(simResult.original, originalData.annualRepayment)
              => simResult.original.dcrValue = Nr(999))

\* C3 witness: a direct call whose override is 0 while the record's own
\* repayment is positive, with NOI > 0, returned the sentinel.
C3_Witness ==
    /\ ZeroRepaymentPositiveNoi(directResult, DirectRepayment)
    /\ repaymentOverride = Nr(0)
    /\ Gt(originalData.annualRepayment, Nr(0))
    /\ directResult.dcrValue = Nr(999)

\* lo <= s <= hi
Within(s, lo, hi) == Ge(s, Nr(lo)) /\ Ge(Nr(hi), s)

\* C4: calculateRiskScore returns creditScore in [0,30], propertyScore in
\* [0,40], interestRiskScore in [0,30], and finalScore is their sum.
C4_SubScoresBoundedAndSum ==
    score # null =>
        /\ Within(score.creditScore, 0, 30)
        /\ Within(score.propertyScore, 0, 40)
        /\ Within(score.interestRiskScore, 0, 30)
        /\ score.finalScore.den = 1
        /\ score.finalScore.num = score.creditScore.num + score.propertyScore.num
                                  + score.interestRiskScore.num

\* C4 witness: a result in which every penalty of every sub-score applied.
C4_Witness ==
    /\ score # null
    /\ score.creditScore = Nr(10)
    /\ score.propertyScore = Nr(5)
    /\ score.interestRiskScore = Nr(5)
    /\ score.finalScore = Nr(20)

\* Variant A has returned for the input of Example 1
Example1Done == variant = "A" /\ input = initialInput /\ score # null

\* C5, as stated: on the input of Example 1 no credit penalty applies:
\* creditScore 30, propertyScore 40, interestRiskScore 30, finalScore 100, Low.
C5_Example1AsStated ==
    Example1Done =>
        /\ score.creditScore = Nr(30)
        /\ score.propertyScore = Nr(40)
        /\ score.interestRiskScore = Nr(30)
        /\ score.finalScore = Nr(100)
        /\ score.riskLevel = RISK_LOW

\* C5, amended: on the input of Example 1 the totalDebt / income > 5 penalty
\* applies (30,000,000 / 5,000,000 = 6) and no other: creditScore 20,
\* propertyScore 40, interestRiskScore 30, finalScore 90, level Low.
C5_Example1 ==
    Example1Done =>
        /\ score.creditScore = Nr(20)
        /\ score.propertyScore = Nr(40)
        /\ score.interestRiskScore = Nr(30)
        /\ score.finalScore = Nr(90)
        /\ score.riskLevel = RISK_LOW

\* C5 witness: the call on the input of Example 1 returned, with the DCSR
\* of 1.26 the example computes.
C5_Witness == Example1Done /\ score.currentDcsr = Num(126, 100)

\* Variant A has returned for the input of Example 2
Example2Done == variant = "A" /\ input = example2Input /\ score # null

\* C6, as stated: with vacancyRate 0.25 the vacancyRate > 0.15 penalty is
\* the only property penalty: propertyScore 35, finalScore 95, level Low.
C6_Example2AsStated ==
    Example2Done =>
        /\ score.propertyScore = Nr(35)
        /\ score.finalScore = Nr(95)
        /\ score.riskLevel = RISK_LOW

\* C6, amended: with vacancyRate 0.25 the DCSR is 1.05, so the DCSR < 1.2
\* penalty (-10) applies beside the vacancyRate > 0.15 penalty (-5):
\* propertyScore 25; with creditScore 20 and interestRiskScore 30 the
\* finalScore is 75 and the level is Medium.
C6_Example2 ==
    Example2Done =>
        /\ score.currentDcsr = Num(105, 100)
        /\ score.creditScore = Nr(20)
        /\ score.propertyScore = Nr(25)
        /\ score.interestRiskScore = Nr(30)
        /\ score.finalScore = Nr(75)
        /\ score.riskLevel = RISK_MEDIUM

\* C6 witness: the call on the input of Example 2 returned.
C6_Witness == Example2Done /\ input.vacancyRate = Num(25, 100)

\* calculateRealEstateRisk has returned for the initial form data, no override
Example4Done ==
    /\ variant = "B"
    /\ originalData = InputDataForCalculation(initialFormData)
    /\ directResult # null
    /\ repaymentOverride = undefined

\* C7: on the input of Example 4 the base score is 30, the DCR is >= 1.2 and
\* the adjustment -10, the other-debt term is +3, the score is 23 and the
\* level is the lowest tier.
C7_Example4 ==
    Example4Done =>
        /\ MathFloor(Times(Over(originalData.annualRepayment,
                                originalData.annualIncomeDebtor), Nr(150))) = Nr(30)
        /\ Ge(directResult.dcrValue, Num(12, 10))
        /\ directResult.dcrDetail = DETAIL_DCR_OK
        /\ MathFloor(Times(originalData.otherDebtsRatio, Nr(30))) = Nr(3)
        /\ directResult.score = Nr(23)
        /\ directResult.level = LEVEL_LOW

\* C7 witness: the direct call on the initial form data returned; its DCR
\* is 1.2, the threshold itself.
C7_Witness == Example4Done /\ directResult.dcrValue = Num(12, 10)

\* the argument the caller gave, or the documented default when it gave none
ArgOrDefault(arg, default) == IF arg = undefined THEN default ELSE arg

\* C8: runWorstCaseSimulation(input, rate = 0.02, worstVacancy = 0.20)
\* returns original = calculateRealEstateRisk(input), vacancy = the same on
\* input with only vacancyRateAssumption replaced by worstVacancy, rateHike
\* = the same on input with the override input.annualRepayment +
\* input.loanAmount * rate, and that override as newRepaymentAmount.
C8_SimulationReturnsThreeAssessments ==
    pcB = "sim_returned" =>
        LET rate == ArgOrDefault(simArgs.rate, Num(2, 100))
            worst == ArgOrDefault(simArgs.worst, Num(20, 100))
            stressed == Plus(entryData.annualRepayment,
                             Times(entryData.loanAmount, rate))
            vacant == [f \in DOMAIN entryData |->
                          IF f = "vacancyRateAssumption" THEN worst
                          ELSE entryData[f]]
        IN  /\ simResult.original = calculateRealEstateRisk(entryData, undefined)
            /\ simResult.vacancy = calculateRealEstateRisk(vacant, undefined)
            /\ simResult.rateHike = calculateRealEstateRisk(entryData, stressed)
            /\ simResult.newRepaymentAmount = stressed

\* C8 witness: a simulation with both arguments given has returned three
\* assessments with three different scores.
C8_Witness ==
    /\ pcB = "sim_returned"
    /\ simArgs.rate # undefined
    /\ simArgs.worst # undefined
    /\ simResult.vacancy.score # simResult.original.score
    /\ simResult.rateHike.score # simResult.original.score
    /\ simResult.rateHike.score # simResult.vacancy.score

\* C9: runWorstCaseSimulation and calculateRealEstateRisk leave the record
\* they are given as it was at the call, in every field.
C9_InputRecordUnchanged ==
    entryData # null => originalData = entryData

\* C9 witness: the simulation returned after computing the vacancy scenario
\* with another vacancy rate and the rate-hike scenario with another
\* repayment than the record holds.
C9_Witness ==
    /\ pcB = "sim_returned"
    /\ simDataVacancy.vacancyRateAssumption # originalData.vacancyRateAssumption
    /\ newAnnualRepayment # originalData.annualRepayment
    /\ simResult.vacancy # simResult.original
    /\ simResult.rateHike # simResult.original

\* the +40 / +15 / -10 adjustment that belongs to a returned dcrValue
AdjustmentOf(dcrValue) ==
    IF Lt(dcrValue, Nr(1)) THEN 40 ELSE IF Lt(dcrValue, Num(12, 10)) THEN 15 ELSE -10

\* max(0, min(100, n)) of an integer
Clamp0To100(n) == IF n < 0 THEN 0 ELSE IF n > 100 THEN 100 ELSE n

\* floor(a / b * k) of Numbers a, b and an integer k
FloorOfRatioTimes(a, b, k) == (a.num * b.den * k) \div (a.den * b.num)

\* C10, as stated: the base score floor(DSR * 150) is capped only at the
\* end: score = max(0, min(100, floor(repayment / income * 150)
\* + dcrAdjustment + floor(otherDebtsRatio * 30))).
C10_CappedOnlyAtTheEnd ==
    (directResult # null /\ ~IsZero(originalData.annualIncomeDebtor)) =>
        directResult.score =
            Nr(Clamp0To100(
                FloorOfRatioTimes(DirectRepayment, originalData.annualIncomeDebtor, 150)
                + AdjustmentOf(directResult.dcrValue)
                + FloorOfRatioTimes(originalData.otherDebtsRatio, Nr(1), 30)))

\* C10, amended: the base score is min(100, floor(DSR * 150)), capped where
\* it is computed, and the sum is clamped again at the end: score =
\* max(0, min(100, min(100, floor(repayment / income * 150))
\* + dcrAdjustment + floor(otherDebtsRatio * 30))).
C10_BaseCappedThenClamped ==
    (directResult # null /\ ~IsZero(originalData.annualIncomeDebtor)) =>
        LET base == FloorOfRatioTimes(DirectRepayment,
                                      originalData.annualIncomeDebtor, 150)
        IN  directResult.score =
                Nr(Clamp0To100(
                    (IF base > 100 THEN 100 ELSE base)
                    + AdjustmentOf(directResult.dcrValue)
                    + FloorOfRatioTimes(originalData.otherDebtsRatio, Nr(1), 30)))

\* C10 witness: floor(DSR * 150) is 150, the DCR adjustment is -10, and the
\* score is 90 plus the other-debt term: below 100 only by the early cap.
C10_Witness ==
    /\ directResult # null
    /\ ~IsZero(originalData.annualIncomeDebtor)
    /\ FloorOfRatioTimes(DirectRepayment, originalData.annualIncomeDebtor, 150) = 150
    /\ AdjustmentOf(directResult.dcrValue) = -10
    /\ Lt(directResult.score, Nr(100))

\* the dcrDetail that belongs to a returned dcrValue
DetailOf(dcrValue) ==
    IF Lt(dcrValue, Nr(1)) THEN DETAIL_DCR_BELOW_1
    ELSE IF Lt(dcrValue, Num(12, 10)) THEN DETAIL_DCR_TIGHT
    ELSE DETAIL_DCR_OK

\* r, computed with this repayment, carries exactly the one adjustment and
\* the dcrDetail of the band its DCR lies in
OneAdjustment(r, repayment) ==
    (r # null /\ ~IsZero(originalData.annualIncomeDebtor)) =>
        LET base == FloorOfRatioTimes(repayment, originalData.annualIncomeDebtor, 150)
        IN  /\ r.score =
                  Nr(Clamp0To100(
                      (IF base > 100 THEN 100 ELSE base)
                      + AdjustmentOf(r.dcrValue)
                      + FloorOfRatioTimes(originalData.otherDebtsRatio, Nr(1), 30)))
            /\ r.dcrDetail = DetailOf(r.dcrValue)
            /\ r.dcrValue = Nr(999) => r.dcrDetail = DETAIL_DCR_OK

\* C11: with a non-zero income exactly one DCR adjustment is applied per
\* call, never a combination: +40 iff DCR < 1.0, +15 iff 1.0 <= DCR < 1.2,
\* -10 iff DCR >= 1.2 (the sentinel 999 included), and dcrDetail is the
\* text of that same branch.
C11_ExactlyOneDcrAdjustment ==
    /\ OneAdjustment(directResult, DirectRepayment)
    /\ OneAdjustment(resultVacancy, originalData.annualRepayment)
    /\ OneAdjustment(resultRate, newAnnualRepayment)
    /\ simResult # null => OneAdjustment(simResult.original, originalData.annualRepayment)

\* C11 witness: one simulation whose three assessments fall in the three
\* branches: the original has margin, one scenario is tight, one is below 1.
C11_Witness ==
    /\ pcB = "sim_returned"
    /\ simResult.original.dcrDetail = DETAIL_DCR_OK
    /\ {simResult.vacancy.dcrDetail, simResult.rateHike.dcrDetail}
          = {DETAIL_DCR_TIGHT, DETAIL_DCR_BELOW_1}

\* the NOI and DCSR of Variant A, computed from the input
RefNoi ==
    Times(Times(input.annualRentIncome, Minus(Nr(1), input.vacancyRate)),
          Minus(Nr(1), input.expenseRate))

RefDcsr ==
    Over(RefNoi, IF IsZero(input.annualRepayment) THEN Nr(1) ELSE input.annualRepayment)

\* C12: propertyScore is 40 less the cumulative penalties: 10 if DCSR < 1.2,
\* a further 15 if DCSR < 1.0, 5 if expenseRate > 0.4, 5 if vacancyRate >
\* 0.15, with NOI = rent * (1 - vacancyRate) * (1 - expenseRate) and DCSR =
\* NOI / annualRepayment (denominator 1 when annualRepayment is 0).
C12_PropertyScoreFormula ==
    score # null =>
        /\ score.currentDcsr = RefDcsr
        /\ score.propertyScore =
              Nr(40 - (IF Lt(RefDcsr, Num(12, 10)) THEN 10 ELSE 0)
                    - (IF Lt(RefDcsr, Nr(1)) THEN 15 ELSE 0)
                    - (IF Gt(input.expenseRate, Num(4, 10)) THEN 5 ELSE 0)
                    - (IF Gt(input.vacancyRate, Num(15, 100)) THEN 5 ELSE 0))

\* C12 witness: a zero repayment (so the denominator is 1), a positive DCSR
\* below 1.0 that costs 25, and one of the two rate penalties.
C12_Witness ==
    /\ score # null
    /\ IsZero(input.annualRepayment)
    /\ Gt(score.currentDcsr, Nr(0))
    /\ Lt(score.currentDcsr, Nr(1))
    /\ score.propertyScore = Nr(10)

\* the simulated repayment of Variant A, computed from the input
RefSimulatedRepayment ==
    Plus(input.annualRepayment,
         Times(Times(input.totalDebt,
                     Minus(input.simulatedInterestRate, input.interestRate)),
               Num(7, 10)))

\* C13: simulatedRepayment = annualRepayment + totalDebt *
\* (simulatedInterestRate - interestRate) * 0.7; simulatedDcsr is the NOI of
\* the current assessment over it (over 1 when it is 0); simulatedRiskLevel
\* is High iff simulatedDcsr < 1.0, Medium iff 1.0 <= simulatedDcsr < 1.2,
\* Low iff simulatedDcsr >= 1.2; also for a simulated rate below the current.
C13_InterestHikeSimulation ==
    score # null =>
        /\ score.simulatedRepayment = RefSimulatedRepayment
        /\ score.simulatedDcsr =
              Over(RefNoi, IF IsZero(RefSimulatedRepayment) THEN Nr(1)
                           ELSE RefSimulatedRepayment)
        /\ score.simulatedRiskLevel = RISK_HIGH <=> Lt(score.simulatedDcsr, Nr(1))
        /\ score.simulatedRiskLevel = RISK_MEDIUM <=>
              (Ge(score.simulatedDcsr, Nr(1)) /\ Lt(score.simulatedDcsr, Num(12, 10)))
        /\ score.simulatedRiskLevel = RISK_LOW <=> Ge(score.simulatedDcsr, Num(12, 10))

\* C13 witness: the simulated rate is below the current one, the simulated
\* repayment is lower than the current but positive, and the simulated
\* DCSR lands in the Medium band.
C13_Witness ==
    /\ score # null
    /\ Lt(input.simulatedInterestRate, input.interestRate)
    /\ Lt(score.simulatedRepayment, input.annualRepayment)
    /\ Gt(score.simulatedRepayment, Nr(0))
    /\ score.simulatedRiskLevel = RISK_MEDIUM

\* C15: in runWorstCaseSimulation a stress scenario never scores lower than
\* the unstressed input: rateHike.score >= original.score when loanAmount *
\* rateIncreasePercentage >= 0, and vacancy.score >= original.score when
\* vacancyRateAssumption <= worstVacancyRate.
C15_StressNeverScoresLower ==
    pcB = "sim_returned" =>
        /\ Ge(Times(originalData.loanAmount, rateIncreasePercentage), Nr(0))
              => Ge(simResult.rateHike.score, simResult.original.score)
        /\ Ge(worstVacancyRate, originalData.vacancyRateAssumption)
              => Ge(simResult.vacancy.score, simResult.original.score)

\* C15 witness: both scenarios score strictly higher than the original.
C15_Witness ==
    /\ pcB = "sim_returned"
    /\ Gt(Times(originalData.loanAmount, rateIncreasePercentage), Nr(0))
    /\ Gt(worstVacancyRate, originalData.vacancyRateAssumption)
    /\ Gt(simResult.rateHike.score, simResult.original.score)
    /\ Gt(simResult.vacancy.score, simResult.original.score)

----------------------------------------------------------------------------
(* The claims about the two user interfaces *)

\* v is a Number other than NaN
IsNumber(v) == DOMAIN v = {"num", "den"} /\ v.den >= 0 /\ ~IsNaN(v)

\* the form of the user interface that runs
Form == IF variant = "A" THEN input ELSE formData

\* the text handleChange parses: Variant A removes the commas first
ParsedText(value) ==
    IF variant = "A" THEN parseFloat(StripCommas(value)) ELSE parseFloat(value)

\* every field of the form is a Number and not NaN
EveryFieldIsANumber == \A f \in DOMAIN Form : IsNumber(Form[f])

\* a step that serves a change event sets the named field only, to 0 when
\* the text does not parse
ChangeSetsOneField ==
    edits' # edits =>
        LET name == event'.name
            parsed == ParsedText(event'.value)
        IN  /\ event'.kind = "change"
            /\ \A f \in DOMAIN Form : f # name => Form'[f] = Form[f]
            /\ IsNaN(parsed) => Form'[name] = Nr(0)
            /\ ~IsNaN(parsed) /\ ~IsZero(parsed) => Form'[name] = parsed

\* C14: in both user interfaces, after any sequence of change events with
\* arbitrary text every form field is a Number and never NaN; a change whose
\* text does not parse sets exactly that field to 0 and leaves the other
\* fields unchanged.
C14_FieldsStayNumbers ==
    [][EveryFieldIsANumber /\ EveryFieldIsANumber' /\ ChangeSetsOneField]_vars

\* C14 witness: Variant A has served a change whose text does not parse, the
\* field is 0, and the 1500000 an earlier change entered as "1,500,000" is
\* still in another field.
C14_Witness ==
    /\ variant = "A"
    /\ event.kind = "change"
    /\ IsNaN(parseFloat(StripCommas(event.value)))
    /\ input[event.name] = Nr(0)
    /\ \E f \in fields : f # event.name /\ input[f] = Nr(1500000)

\* r is null or the simulation of the form data, with remainingYears 20 and
\* the default rate increase and worst-case vacancy
ResultsMatchForm(r, form) ==
    r = null \/ r = runWorstCaseSimulation(InputDataForCalculation(form),
                                           Num(2, 100), Num(20, 100))

\* the steps of App.jsx: the form changes only while no results are shown,
\* results are set only by a submit, and going back clears the results and
\* keeps the form
StepsOfApp ==
    /\ formData' # formData => results = null /\ results' = null
    /\ (results' # null /\ results' # results) => event'.kind = "submit"
    /\ (results # null /\ results' = null) =>
           event'.kind = "back" /\ formData' = formData

\* C16: in App.jsx, after any sequence of edits, submits and back actions,
\* results is null or is the simulation of the current form data with
\* remainingYears 20; the form is edited only while results is null, only a
\* submit sets results, and going back sets results to null and leaves the
\* form data unchanged.
C16_ResultsMatchForm ==
    [][/\ ResultsMatchForm(results, formData)
       /\ ResultsMatchForm(results', formData')
       /\ StepsOfApp]_vars

\* C16 witness: two changes whose text does not parse have set income and
\* repayment to 0, the form was submitted, and the results shown are those
\* of that form: the fatal assessment of a zero income.
C16_Witness ==
    /\ variant = "B"
    /\ event.kind = "submit"
    /\ results # null
    /\ formData.annualIncomeDebtor = Nr(0)
    /\ formData.annualRepayment = Nr(0)
    /\ results.original.level = LEVEL_FATAL
====
